---- MODULE Spec2Model ----
(***************************************************************************)
(* A model of mars_label_stat.go: the label counter for JSON-lines files.  *)
(*                                                                         *)
(* Go strings are modelled as sequences of bytes (their ASCII codes), so   *)
(* that indexing, slicing and the byte-wise comparison of labels are what  *)
(* they are in the program.  Positions are 0-based as in the source; At    *)
(* and Slice translate them to TLA+ sequences.                             *)
(***************************************************************************)
EXTENDS Integers, Sequences, FiniteSets, TLC

(***************************************************************************)
(* Bounds of the model.                                                    *)
(***************************************************************************)
MaxFiles == 2
MaxWorkers == 2
MaxLines == 2
MaxCount == 3
MaxTail == 4

(***************************************************************************)
(* Bytes the program names.                                                *)
(***************************************************************************)
SP == 32
TAB == 9
NL == 10
CR == 13
DQ == 34
SQ == 39
BSL == 92
COMMA == 44
RBRACE == 125
LBRACE == 123
LBRACK == 91
RBRACK == 93
COLON == 58
MINUS == 45
PLUS == 43
DOT == 46
SLASH == 47
ZERO == 48

Digits == 48..57

(***************************************************************************)
(* Go string primitives.                                                   *)
(***************************************************************************)
\* line[i]
At(s, i) == s[i + 1]

\* line[a:b]
Slice(s, a, b) == SubSeq(s, a + 1, b)

\* s[i:] starts with p
HasPrefixAt(s, p, i) ==
    /\ i + Len(p) <= Len(s)
    /\ \A k \in 1..Len(p) : s[i + k] = p[k]

\* strings.Index(s, p): the first position where p occurs in s, or -1
Index(s, p) ==
    LET hits == {i \in 0..Len(s) : HasPrefixAt(s, p, i)}
    IN  IF hits = {} THEN -1
        ELSE CHOOSE i \in hits : \A j \in hits : i <= j

\* the bytes unicode.IsSpace accepts in ASCII text
IsSpace(c) == c \in {TAB, NL, 11, 12, CR, SP}

RECURSIVE TrimLeft(_)
TrimLeft(s) ==
    IF s # <<>> /\ IsSpace(Head(s)) THEN TrimLeft(Tail(s)) ELSE s

RECURSIVE TrimRight(_)
TrimRight(s) ==
    IF s # <<>> /\ IsSpace(s[Len(s)])
    THEN TrimRight(SubSeq(s, 1, Len(s) - 1))
    ELSE s

\* strings.TrimSpace
TrimSpace(s) == TrimRight(TrimLeft(s))

\* a < b for Go strings: byte-wise lexicographic
RECURSIVE StrLess(_, _)
StrLess(a, b) ==
    IF b = <<>> THEN FALSE
    ELSE IF a = <<>> THEN TRUE
    ELSE IF Head(a) # Head(b) THEN Head(a) < Head(b)
    ELSE StrLess(Tail(a), Tail(b))

(***************************************************************************)
(* fastExtractLabel                                                        *)
(***************************************************************************)
\* the literal `"label":`
labelKeyLit == <<34, 108, 97, 98, 101, 108, 34, 58>>

\* the loop that skips blanks after the pattern
RECURSIVE SkipBlank(_, _)
SkipBlank(line, start) ==
    IF start < Len(line) /\ At(line, start) \in {SP, TAB, NL}
    THEN SkipBlank(line, start + 1)
    ELSE start

\* the loop that looks for the closing quote q, from end
RECURSIVE QuotedEnd(_, _, _)
QuotedEnd(line, end, q) ==
    IF end < Len(line) /\ At(line, end) # q
    THEN IF At(line, end) = BSL /\ end + 1 < Len(line)
         THEN QuotedEnd(line, end + 2, q)
         ELSE QuotedEnd(line, end + 1, q)
    ELSE end

\* the loop that reads a simple value up to ',', '}' or a newline
RECURSIVE SimpleEnd(_, _)
SimpleEnd(line, end) ==
    IF end < Len(line) /\ At(line, end) \notin {COMMA, RBRACE, NL}
    THEN SimpleEnd(line, end + 1)
    ELSE end

\* the last step: strip one layer of quotes from the trimmed value
StripQuotes(value) ==
    IF /\ Len(value) >= 2
       /\ \/ (value[1] = DQ /\ value[Len(value)] = DQ)
          \/ (value[1] = SQ /\ value[Len(value)] = SQ)
    THEN SubSeq(value, 2, Len(value) - 1)
    ELSE value

\* a faulty body that returns the quoted value from its opening quote on
ValueAfterFromQuote(line, labelKey) ==
    LET pos == Index(line, labelKey)
    IN  IF pos = -1 THEN <<>>
        ELSE
        LET start == SkipBlank(line, pos + Len(labelKey))
        IN  IF start >= Len(line) THEN <<>>
            ELSE
            LET firstChar == At(line, start)
                dend == QuotedEnd(line, start + 1, DQ)
                send == QuotedEnd(line, start + 1, SQ)
                end == SimpleEnd(line, start)
            IN  IF firstChar = DQ /\ dend < Len(line)
                THEN Slice(line, start, dend)
                ELSE IF firstChar = SQ /\ send < Len(line)
                THEN Slice(line, start, send)
                ELSE StripQuotes(TrimSpace(Slice(line, start, end)))

\* the body of fastExtractLabel, for the pattern its labelKey holds
ValueAfter(line, labelKey) ==
    LET pos == Index(line, labelKey)
    IN  IF pos = -1 THEN <<>>
        ELSE
        LET start == SkipBlank(line, pos + Len(labelKey))
        IN  IF start >= Len(line) THEN <<>>
            ELSE
            LET firstChar == At(line, start)
                dend == QuotedEnd(line, start + 1, DQ)
                send == QuotedEnd(line, start + 1, SQ)
                end == SimpleEnd(line, start)
            IN  IF firstChar = DQ /\ dend < Len(line)
                THEN Slice(line, start + 1, dend)
                ELSE IF firstChar = SQ /\ send < Len(line)
                THEN Slice(line, start + 1, send)
                ELSE StripQuotes(TrimSpace(Slice(line, start, end)))

\* fastExtractLabel(line): labelKey := `"label":`
fastExtractLabel(line) == ValueAfter(line, labelKeyLit)

(***************************************************************************)
(* encoding/json, as processFile uses it: json.Unmarshal of one line into  *)
(* a map[string]interface{}.  Lines are ASCII text.  A parsed value is a   *)
(* record [t, s, kids]: t its kind, s its text (the decoded string, the    *)
(* number's lexeme, "true"/"false"), kids the members of an object (k, v)  *)
(* or the elements of an array.                                            *)
(***************************************************************************)
IsJSONSpace(c) == c \in {SP, TAB, NL, CR}

RECURSIVE SkipWS(_, _)
SkipWS(s, i) ==
    IF i < Len(s) /\ IsJSONSpace(At(s, i)) THEN SkipWS(s, i + 1) ELSE i

trueLit == <<116, 114, 117, 101>>
falseLit == <<102, 97, 108, 115, 101>>
nullLit == <<110, 117, 108, 108>>
nilText == <<60, 110, 105, 108, 62>>

JVal(t, s, kids) == [t |-> t, s |-> s, kids |-> kids]
JFail == [ok |-> FALSE, pos |-> 0, val |-> JVal("null", <<>>, <<>>)]
JOk(pos, val) == [ok |-> TRUE, pos |-> pos, val |-> val]

HexVal(c) ==
    IF c \in 48..57 THEN c - 48
    ELSE IF c \in 97..102 THEN c - 87
    ELSE IF c \in 65..70 THEN c - 55
    ELSE -1

\* the rune of \uXXXX at s[i:], or -1
GetU4(s, i) ==
    IF /\ i + 6 <= Len(s)
       /\ At(s, i) = BSL
       /\ At(s, i + 1) = 117
       /\ \A k \in 2..5 : HexVal(At(s, i + k)) >= 0
    THEN HexVal(At(s, i + 2)) * 4096 + HexVal(At(s, i + 3)) * 256
         + HexVal(At(s, i + 4)) * 16 + HexVal(At(s, i + 5))
    ELSE -1

\* the UTF-8 encoding of a rune
EncodeRune(r) ==
    IF r < 128 THEN <<r>>
    ELSE IF r < 2048 THEN <<192 + (r \div 64), 128 + (r % 64)>>
    ELSE IF r < 65536
    THEN <<224 + (r \div 4096), 128 + ((r \div 64) % 64), 128 + (r % 64)>>
    ELSE <<240 + (r \div 262144), 128 + ((r \div 4096) % 64),
           128 + ((r \div 64) % 64), 128 + (r % 64)>>

ReplacementChar == 65533

IsSurrogate(r) == r >= 55296 /\ r < 57344

\* utf16.DecodeRune
DecodeRune(r1, r2) ==
    IF r1 >= 55296 /\ r1 < 56320 /\ r2 >= 56320 /\ r2 < 57344
    THEN (r1 - 55296) * 1024 + (r2 - 56320) + 65536
    ELSE ReplacementChar

\* the byte a one-letter escape stands for, or -1
Unescape(e) ==
    CASE e = DQ -> DQ
      [] e = BSL -> BSL
      [] e = SLASH -> SLASH
      [] e = 98 -> 8
      [] e = 102 -> 12
      [] e = 110 -> NL
      [] e = 114 -> CR
      [] e = 116 -> TAB
      [] OTHER -> -1

\* the body of a string literal from s[i:], up to its closing quote
RECURSIVE StringBody(_, _, _)
StringBody(s, i, acc) ==
    IF i >= Len(s) THEN JFail
    ELSE
    LET c == At(s, i)
    IN  IF c = DQ THEN JOk(i + 1, JVal("string", acc, <<>>))
        ELSE IF c < 32 THEN JFail
        ELSE IF c # BSL THEN StringBody(s, i + 1, Append(acc, c))
        ELSE IF i + 1 >= Len(s) THEN JFail
        ELSE IF At(s, i + 1) = 117
        THEN LET rr == GetU4(s, i)
                 rr1 == GetU4(s, i + 6)
             IN  IF rr < 0 THEN JFail
                 ELSE IF ~IsSurrogate(rr)
                 THEN StringBody(s, i + 6, acc \o EncodeRune(rr))
                 ELSE IF rr1 >= 0 /\ DecodeRune(rr, rr1) # ReplacementChar
                 THEN StringBody(s, i + 12,
                                 acc \o EncodeRune(DecodeRune(rr, rr1)))
                 ELSE StringBody(s, i + 6, acc \o EncodeRune(ReplacementChar))
        ELSE IF Unescape(At(s, i + 1)) < 0 THEN JFail
        ELSE StringBody(s, i + 2, Append(acc, Unescape(At(s, i + 1))))

RECURSIVE DigitsEnd(_, _)
DigitsEnd(s, i) ==
    IF i < Len(s) /\ At(s, i) \in Digits THEN DigitsEnd(s, i + 1) ELSE i

\* the end of the number literal that starts at s[i], or -1
NumberEnd(s, i) ==
    LET i1 == IF i < Len(s) /\ At(s, i) = MINUS THEN i + 1 ELSE i
        i2 == IF i1 >= Len(s) THEN -1
              ELSE IF At(s, i1) = ZERO THEN i1 + 1
              ELSE IF At(s, i1) \in Digits THEN DigitsEnd(s, i1 + 1)
              ELSE -1
        i3 == IF i2 = -1 THEN -1
              ELSE IF i2 < Len(s) /\ At(s, i2) = DOT
              THEN IF DigitsEnd(s, i2 + 1) > i2 + 1
                   THEN DigitsEnd(s, i2 + 1)
                   ELSE -1
              ELSE i2
        i4 == IF i3 = -1 THEN -1
              ELSE IF i3 < Len(s) /\ At(s, i3) \in {101, 69}
              THEN LET j == IF i3 + 1 < Len(s) /\ At(s, i3 + 1) \in {PLUS, MINUS}
                            THEN i3 + 2
                            ELSE i3 + 1
                   IN  IF DigitsEnd(s, j) > j THEN DigitsEnd(s, j) ELSE -1
              ELSE i3
    IN  i4

RECURSIVE ParseValue(_, _)
RECURSIVE ParseMembers(_, _, _)
RECURSIVE ParseElems(_, _, _)

\* after a member's value: a comma and the next member, or the closing brace
MemberSep(s, e, acc) ==
    IF e >= Len(s) THEN JFail
    ELSE IF At(s, e) = COMMA THEN ParseMembers(s, SkipWS(s, e + 1), acc)
    ELSE IF At(s, e) = RBRACE THEN JOk(e + 1, JVal("object", <<>>, acc))
    ELSE JFail

\* a member's value v, parsed
MemberValue(s, key, v, acc) ==
    IF ~v.ok THEN JFail
    ELSE MemberSep(s, SkipWS(s, v.pos), Append(acc, [k |-> key, v |-> v.val]))

\* after a member's key: the colon at s[j], then the value
MemberColon(s, key, j, acc) ==
    IF j >= Len(s) \/ At(s, j) # COLON THEN JFail
    ELSE MemberValue(s, key, ParseValue(s, SkipWS(s, j + 1)), acc)

\* a member's key k, parsed
MemberKey(s, k, acc) ==
    IF ~k.ok THEN JFail ELSE MemberColon(s, k.val.s, SkipWS(s, k.pos), acc)

\* the members of an object from the key at s[i] to the closing brace
ParseMembers(s, i, acc) ==
    IF i >= Len(s) \/ At(s, i) # DQ THEN JFail
    ELSE MemberKey(s, StringBody(s, i + 1, <<>>), acc)

\* after an element: a comma and the next element, or the closing bracket
ElemSep(s, e, acc) ==
    IF e >= Len(s) THEN JFail
    ELSE IF At(s, e) = COMMA THEN ParseElems(s, SkipWS(s, e + 1), acc)
    ELSE IF At(s, e) = RBRACK THEN JOk(e + 1, JVal("array", <<>>, acc))
    ELSE JFail

\* an element v, parsed
ElemValue(s, v, acc) ==
    IF ~v.ok THEN JFail ELSE ElemSep(s, SkipWS(s, v.pos), Append(acc, v.val))

\* the elements of an array from the value at s[i] to the closing bracket
ParseElems(s, i, acc) == ElemValue(s, ParseValue(s, i), acc)

\* an object whose first byte after the brace and blanks is s[j]
ObjectFrom(s, j) ==
    IF j < Len(s) /\ At(s, j) = RBRACE
    THEN JOk(j + 1, JVal("object", <<>>, <<>>))
    ELSE ParseMembers(s, j, <<>>)

\* an array whose first byte after the bracket and blanks is s[j]
ArrayFrom(s, j) ==
    IF j < Len(s) /\ At(s, j) = RBRACK
    THEN JOk(j + 1, JVal("array", <<>>, <<>>))
    ELSE ParseElems(s, j, <<>>)

\* the number literal s[i:e]
NumberAt(s, i, e) ==
    IF e = -1 THEN JFail ELSE JOk(e, JVal("number", Slice(s, i, e), <<>>))

\* the value that starts at s[i]
ParseValue(s, i) ==
    IF i >= Len(s) THEN JFail
    ELSE IF At(s, i) = DQ THEN StringBody(s, i + 1, <<>>)
    ELSE IF At(s, i) = LBRACE THEN ObjectFrom(s, SkipWS(s, i + 1))
    ELSE IF At(s, i) = LBRACK THEN ArrayFrom(s, SkipWS(s, i + 1))
    ELSE IF At(s, i) = MINUS \/ At(s, i) \in Digits
    THEN NumberAt(s, i, NumberEnd(s, i))
    ELSE IF HasPrefixAt(s, trueLit, i) THEN JOk(i + 4, JVal("bool", trueLit, <<>>))
    ELSE IF HasPrefixAt(s, falseLit, i) THEN JOk(i + 5, JVal("bool", falseLit, <<>>))
    ELSE IF HasPrefixAt(s, nullLit, i) THEN JOk(i + 4, JVal("null", <<>>, <<>>))
    ELSE JFail

\* what Unmarshal makes of the parsed text v: err is set for text that is not
\* one JSON value, and for a value that is neither an object nor null; null
\* leaves the map nil
UnmarshalValue(line, v) ==
    IF ~v.ok \/ SkipWS(line, v.pos) # Len(line)
    THEN [err |-> TRUE, data |-> <<>>]
    ELSE IF v.val.t = "object" THEN [err |-> FALSE, data |-> v.val.kids]
    ELSE IF v.val.t = "null" THEN [err |-> FALSE, data |-> <<>>]
    ELSE [err |-> TRUE, data |-> <<>>]

\* json.Unmarshal([]byte(line), &data) with data a map[string]interface{}
Unmarshal(line) == UnmarshalValue(line, ParseValue(line, SkipWS(line, 0)))

\* labelVal, ok := data[labelKey]: a repeated key keeps its last value
HasKey(data, key) == \E n \in 1..Len(data) : data[n].k = key

MapGet(data, key) ==
    LET hits == {n \in 1..Len(data) : data[n].k = key}
    IN  data[CHOOSE n \in hits : \A m \in hits : m <= n].v

(***************************************************************************)
(* fmt.Sprintf, as processFile uses it.  A float64 is kept as the decimal  *)
(* digits and decimal point position of its JSON lexeme (value = 0.d *     *)
(* 10^dp); for lexemes of at most 15 significant digits these are the      *)
(* shortest digits that round-trip, which is what %g prints.               *)
(***************************************************************************)
RECURSIVE Itoa(_)
Itoa(n) == IF n < 10 THEN <<ZERO + n>> ELSE Append(Itoa(n \div 10), ZERO + (n % 10))

RECURSIVE Atoi(_, _)
Atoi(ds, acc) ==
    IF ds = <<>> THEN acc ELSE Atoi(Tail(ds), acc * 10 + (Head(ds) - ZERO))

RECURSIVE LeadingZeros(_)
LeadingZeros(ds) ==
    IF ds # <<>> /\ Head(ds) = ZERO THEN 1 + LeadingZeros(Tail(ds)) ELSE 0

RECURSIVE DropTrailingZeros(_)
DropTrailingZeros(ds) ==
    IF ds # <<>> /\ ds[Len(ds)] = ZERO
    THEN DropTrailingZeros(SubSeq(ds, 1, Len(ds) - 1))
    ELSE ds

\* the first position of one of the bytes cs in s, or Len(s)
FirstOf(s, cs) ==
    LET hits == {i \in 0..(Len(s) - 1) : At(s, i) \in cs}
    IN  IF hits = {} THEN Len(s)
        ELSE CHOOSE i \in hits : \A j \in hits : i <= j

\* the float64 of a number lexeme: sign, digits d and point position dp
ParseFloat(lex) ==
    LET neg == lex[1] = MINUS
        body == IF neg THEN Tail(lex) ELSE lex
        ePos == FirstOf(body, {101, 69})
        mant == Slice(body, 0, ePos)
        expTxt == Slice(body, IF ePos < Len(body) THEN ePos + 1 ELSE ePos, Len(body))
        expo == IF expTxt = <<>> THEN 0
                ELSE IF Head(expTxt) = MINUS THEN 0 - Atoi(Tail(expTxt), 0)
                ELSE IF Head(expTxt) = PLUS THEN Atoi(Tail(expTxt), 0)
                ELSE Atoi(expTxt, 0)
        dotPos == FirstOf(mant, {DOT})
        intp == Slice(mant, 0, dotPos)
        frac == Slice(mant, IF dotPos < Len(mant) THEN dotPos + 1 ELSE dotPos, Len(mant))
        all == intp \o frac
        lead == LeadingZeros(all)
        d == DropTrailingZeros(Slice(all, lead, Len(all)))
    IN  [neg |-> neg, d |-> d, dp |-> IF d = <<>> THEN 0 ELSE Len(intp) + expo - lead]

\* n zeros
RECURSIVE Zeros(_)
Zeros(n) == IF n <= 0 THEN <<>> ELSE Append(Zeros(n - 1), ZERO)

\* %e with the shortest digits: d.ddde+XX
FmtE(f) ==
    LET first == IF f.d = <<>> THEN <<ZERO>> ELSE <<f.d[1]>>
        rest == IF Len(f.d) > 1 THEN <<DOT>> \o Tail(f.d) ELSE <<>>
        exp == IF f.d = <<>> THEN 0 ELSE f.dp - 1
        mag == IF exp < 0 THEN 0 - exp ELSE exp
    IN  first \o rest \o <<101>> \o (IF exp < 0 THEN <<MINUS>> ELSE <<PLUS>>)
        \o (IF mag < 10 THEN <<ZERO>> ELSE <<>>) \o Itoa(mag)

\* %f with the shortest digits
FmtF(f) ==
    LET nd == Len(f.d)
        intp == IF f.dp > 0
                THEN Slice(f.d, 0, IF nd < f.dp THEN nd ELSE f.dp) \o Zeros(f.dp - nd)
                ELSE <<ZERO>>
        frac == IF nd > f.dp
                THEN <<DOT>> \o Zeros(0 - f.dp)
                     \o Slice(f.d, IF f.dp > 0 THEN f.dp ELSE 0, nd)
                ELSE <<>>
    IN  intp \o frac

\* fmt.Sprintf("%g", v): %e when the decimal exponent is < -4 or >= eprec,
\* %f otherwise; with the shortest formatting (precision -1) eprec is 6
eprec == 6

FormatG(lex) ==
    LET f == ParseFloat(lex)
        exp == f.dp - 1
        body == IF exp < -4 \/ exp >= eprec THEN FmtE(f) ELSE FmtF(f)
    IN  (IF f.neg THEN <<MINUS>> ELSE <<>>) \o body

\* the members of a map in the order fmt prints them: one per key (the last
\* value of a repeated key), keys ascending
RECURSIVE SortedKeys(_)
SortedKeys(ks) ==
    IF ks = {} THEN <<>>
    ELSE LET m == CHOOSE k \in ks : \A o \in ks : o = k \/ StrLess(k, o)
         IN  <<m>> \o SortedKeys(ks \ {m})

\* fmt.Sprintf("%v", v) of a decoded JSON value
RECURSIVE FormatV(_)
RECURSIVE JoinV(_)
FormatV(v) ==
    CASE v.t = "string" -> v.s
      [] v.t = "number" -> FormatG(v.s)
      [] v.t = "bool" -> v.s
      [] v.t = "null" -> nilText
      [] v.t = "array" -> <<LBRACK>> \o JoinV(v.kids) \o <<RBRACK>>
      [] v.t = "object" ->
            LET keys == SortedKeys({v.kids[n].k : n \in 1..Len(v.kids)})
                hits(k) == {n \in 1..Len(v.kids) : v.kids[n].k = k}
                last(k) == v.kids[CHOOSE n \in hits(k) : \A m \in hits(k) : m <= n].v
            IN  <<109, 97, 112, LBRACK>>
                \o JoinV([n \in 1..Len(keys) |->
                            JVal("string", keys[n] \o <<COLON>> \o FormatV(last(keys[n])), <<>>)])
                \o <<RBRACK>>

\* the values of vs, each as %v prints it, separated by one space
JoinV(vs) ==
    IF vs = <<>> THEN <<>>
    ELSE IF Len(vs) = 1 THEN FormatV(vs[1])
    ELSE FormatV(vs[1]) \o <<SP>> \o JoinV(Tail(vs))

(***************************************************************************)
(* processFile                                                             *)
(***************************************************************************)
\* the type switch on labelVal
LabelText(v) ==
    CASE v.t = "string" -> v.s
      [] v.t = "number" -> FormatG(v.s)
      [] v.t = "bool" -> FormatV(v)
      [] OTHER -> FormatV(v)

\* the label of a decoded line u: the lookup and the type switch
LabelOf(u, labelKey) ==
    IF u.err THEN [skip |-> TRUE, label |-> <<>>]
    ELSE IF HasKey(u.data, labelKey)
    THEN [skip |-> FALSE, label |-> LabelText(MapGet(u.data, labelKey))]
    ELSE [skip |-> FALSE, label |-> <<>>]

\* the label a line yields: the body of the scan loop up to "if label != ..."
\* skip is the "continue" on a line that is not JSON
ExtractLabel(line, labelKey, fastParse) ==
    IF fastParse THEN [skip |-> FALSE, label |-> fastExtractLabel(line)]
    ELSE LabelOf(Unmarshal(line), labelKey)

\* counts[label], 0 for a key the map does not hold
Get(counts, label) == IF label \in DOMAIN counts THEN counts[label] ELSE 0

\* make(map[string]int64)
EmptyMap == [l \in {} |-> 0]

\* counts[label] += n
Add(counts, label, n) ==
    [l \in DOMAIN counts \cup {label} |->
        IF l = label THEN Get(counts, l) + n ELSE counts[l]]

\* scanner.Text() of one raw line of the file: ScanLines drops one trailing \r
ScanText(raw) ==
    IF raw # <<>> /\ raw[Len(raw)] = CR THEN SubSeq(raw, 1, Len(raw) - 1) ELSE raw

\* a faulty count that takes every decoded line for a counted one
CountEveryLine(st, e) ==
    IF e.skip THEN st
    ELSE IF e.label # <<>>
    THEN [counts |-> Add(st.counts, e.label, 1), lineCount |-> st.lineCount + 1]
    ELSE [counts |-> st.counts, lineCount |-> st.lineCount + 1]

\* "if label != "" { counts[label]++; lineCount++ }" for the label e of a line
Count(st, e) ==
    IF e.skip THEN st
    ELSE IF e.label # <<>>
    THEN [counts |-> Add(st.counts, e.label, 1), lineCount |-> st.lineCount + 1]
    ELSE st

\* one iteration of the scan loop on st = [counts, lineCount], for the text
\* line
ScanText1(st, line, labelKey, fastParse) ==
    IF line = <<>> THEN st
    ELSE Count(st, ExtractLabel(line, labelKey, fastParse))

\* one iteration of the scan loop for a raw line of the file
ScanLine(st, raw, labelKey, fastParse) ==
    ScanText1(st, ScanText(raw), labelKey, fastParse)

\* the scan loop over the lines the scanner delivers
RECURSIVE ScanAll(_, _, _, _)
ScanAll(st, raws, labelKey, fastParse) ==
    IF raws = <<>> THEN st
    ELSE ScanAll(ScanLine(st, Head(raws), labelKey, fastParse), Tail(raws),
                 labelKey, fastParse)

\* errors: nil, or the kind of failure and the path its message names
NoErr == [kind |-> "nil", path |-> 0]
Err(kind, path) == [kind |-> kind, path |-> path]

\* the two returns after the scan loop, st being what the loop counted
Returned(st, path, readErr) ==
    [Counts |-> st.counts, Lines |-> st.lineCount,
     Error |-> IF readErr THEN Err("read", path) ELSE NoErr]

\* processFile(filePath, labelKey, fastParse) on the file f found at path:
\* f.openErr: os.Open fails; f.raw: the lines the scanner delivers;
\* f.readErr: scanner.Err() is set after them (I/O error or a line over 10MB)
processFile(path, f, labelKey, fastParse) ==
    IF f.openErr
    THEN [Counts |-> EmptyMap, Lines |-> 0, Error |-> Err("open", path)]
    ELSE Returned(ScanAll([counts |-> EmptyMap, lineCount |-> 0], f.raw,
                          labelKey, fastParse),
                  path, f.readErr)

(***************************************************************************)
(* collectJSONLFiles                                                       *)
(***************************************************************************)
\* filepath.Ext: the suffix from the last dot, or ""
Ext(name) ==
    LET dots == {i \in 1..Len(name) : name[i] = DOT}
    IN  IF dots = {} THEN <<>>
        ELSE SubSeq(name, CHOOSE i \in dots : \A j \in dots : j <= i, Len(name))

\* strings.ToLower on ASCII text
ToLower(s) == [i \in 1..Len(s) |-> IF s[i] \in 65..90 THEN s[i] + 32 ELSE s[i]]

jsonlExt == <<46, 106, 115, 111, 110, 108>>
jsonExt == <<46, 106, 115, 111, 110>>

\* the test of the walk function on one entry
IsJSONLFile(entry) ==
    /\ ~entry.isDir
    /\ ToLower(Ext(entry.name)) \in {jsonlExt, jsonExt}

\* the paths the walk appends, in walk order; a path is the entry's position
RECURSIVE WalkFrom(_, _)
WalkFrom(entries, n) ==
    IF n > Len(entries) THEN <<>>
    ELSE (IF IsJSONLFile(entries[n]) THEN <<n>> ELSE <<>>) \o WalkFrom(entries, n + 1)

collectJSONLFiles(d) ==
    [files |-> WalkFrom(d.entries, 1), err |-> d.walkErr]

(***************************************************************************)
(* countLabels: ranking                                                    *)
(***************************************************************************)
\* a faulty less function that leaves equal counts unordered
LessByCountOnly(a, b) == a.Count > b.Count

\* the less function handed to sort.Slice
Less(a, b) ==
    IF a.Count = b.Count THEN StrLess(a.Label, b.Label) ELSE a.Count > b.Count

\* the inner loop of insertion sort: sink data[j] while it is less than data[j-1]
RECURSIVE Sink(_, _)
Sink(data, j) ==
    IF j > 1 /\ Less(data[j], data[j - 1])
    THEN Sink([data EXCEPT ![j] = data[j - 1], ![j - 1] = data[j]], j - 1)
    ELSE data

\* sort.Slice: for the at most 12 elements of the model, pdqsort is this
\* insertion sort
RECURSIVE InsertionSort(_, _)
InsertionSort(data, i) ==
    IF i > Len(data) THEN data ELSE InsertionSort(Sink(data, i), i + 1)

SortSlice(data) == InsertionSort(data, 2)

\* the orders in which "for label, count := range totalCounts" may visit the map
RangeOrders(m) ==
    {o \in [1..Cardinality(DOMAIN m) -> DOMAIN m] :
        \A i, j \in DOMAIN o : i # j => o[i] # o[j]}

\* sortedLabels for one visiting order
SortedLabelsOf(m, order) ==
    SortSlice([i \in DOMAIN order |-> [Label |-> order[i], Count |-> m[order[i]]]])

(***************************************************************************)
(* Inputs: the configuration main builds and the directory tree on disk.   *)
(***************************************************************************)
labelText == <<108, 97, 98, 101, 108>>
xText == <<120>>

Str(t) == <<DQ>> \o t \o <<DQ>>
Rec1(k, v) == <<LBRACE>> \o Str(k) \o <<COLON>> \o v \o <<RBRACE>>

lineA == Rec1(labelText, Str(<<97>>))
lineB == Rec1(labelText, Str(<<98>>))
lineXA == Rec1(xText, Str(<<97>>))
lineEmptyVal == Rec1(labelText, Str(<<>>))
lineCut == <<LBRACE>> \o Str(labelText) \o <<COLON>> \o Str(<<99>>)
lineCR == <<CR>>

Entry(name, openErr, raw, readErr) ==
    [name |-> name, isDir |-> FALSE, openErr |-> openErr, raw |-> raw,
     readErr |-> readErr]

\* a.jsonl, b.JSON, c.json (cannot be opened), d.jsonl (fails after two
\* lines), e.txt
EntryKinds ==
    { Entry(<<97>> \o jsonlExt, FALSE, <<lineA, lineB, lineA, lineCR>>, FALSE),
      Entry(<<98, 46, 74, 83, 79, 78>>, FALSE,
            <<lineB, lineXA, lineCut, lineEmptyVal>>, FALSE),
      Entry(<<99>> \o jsonExt, TRUE, <<>>, FALSE),
      Entry(<<100>> \o jsonlExt, FALSE, <<lineA, lineB>>, TRUE),
      Entry(<<101, 46, 116, 120, 116>>, FALSE, <<lineA>>, FALSE) }

SeqsUpTo(S, n) == UNION {[1..k -> S] : k \in 0..n}

Dirs ==
    {[walkErr |-> TRUE, entries |-> <<>>]}
    \cup {[walkErr |-> FALSE, entries |-> es] : es \in SeqsUpTo(EntryKinds, MaxFiles)}

\* main: LabelKey from -label-key, Workers > 0, UseFastParse unless -full-parse
Configs ==
    [LabelKey : {labelText, xText}, Workers : 1..MaxWorkers, UseFastParse : BOOLEAN]

(***************************************************************************)
(* State.                                                                  *)
(***************************************************************************)
VARIABLES
    config,         \* countLabels' config
    directory,      \* the tree under countLabels' directory
    mpc,            \* where countLabels is
    files,          \* files, once collected
    chans,          \* whether jobs and results have been made
    jobs,           \* the buffered content of the jobs channel
    jobsClosed,
    results,        \* the buffered content of the results channel
    resultsClosed,
    wg,             \* the WaitGroup counter
    spawned,        \* i of the loop that starts the workers
    wpc,            \* where each worker is
    wres,           \* the WorkerResult a worker is about to send
    dpc,            \* where the goroutine that sends the jobs is
    sent,           \* how many files it has ranged over
    wtpc,           \* where the goroutine that waits for the workers is
    totalCounts,
    totalLines,
    errors,
    ret,            \* what countLabels returned
    panic,          \* a goroutine panicked: the process is gone
    taken,          \* history: the workers that received each file's job
    merged,         \* history: the files of the results, as the loop over results saw them
    pf,             \* one call of processFile, line by line
    fx              \* one call of fastExtractLabel, statement by statement

vars ==
    <<config, directory, mpc, files, chans, jobs, jobsClosed, results,
      resultsClosed, wg, spawned, wpc, wres, dpc, sent, wtpc, totalCounts,
      totalLines, errors, ret, panic, taken, merged, pf, fx>>

Workers == 1..MaxWorkers

NoResult == [Counts |-> EmptyMap, Lines |-> 0, Error |-> NoErr, of |-> 0]
NoReturn == [kind |-> "none"]

\* no call of processFile is followed line by line
NoCall ==
    [pc |-> "idle", idx |-> 0, counts |-> EmptyMap, lineCount |-> 0,
     label |-> <<>>, ret |-> NoResult]

\* no call of fastExtractLabel is followed statement by statement
NoFx ==
    [pc |-> "idle", line |-> <<>>, pos |-> 0, start |-> 0, end |-> 0,
     firstChar |-> 0, ret |-> <<>>]

\* countLabels has just been called
Start ==
    /\ mpc = "collect"
    /\ files = <<>>
    /\ chans = FALSE
    /\ jobs = <<>>
    /\ jobsClosed = FALSE
    /\ results = <<>>
    /\ resultsClosed = FALSE
    /\ wg = 0
    /\ spawned = 0
    /\ wpc = [w \in Workers |-> "none"]
    /\ wres = [w \in Workers |-> NoResult]
    /\ dpc = "none"
    /\ sent = 0
    /\ wtpc = "none"
    /\ totalCounts = EmptyMap
    /\ totalLines = 0
    /\ errors = <<>>
    /\ ret = NoReturn
    /\ panic = FALSE
    /\ taken = <<>>
    /\ merged = <<>>

Init ==
    /\ config \in Configs
    /\ directory \in Dirs
    /\ Start
    /\ pf = NoCall
    /\ fx = NoFx

(***************************************************************************)
(* countLabels, up to the loop over results.                               *)
(***************************************************************************)
\* a faulty start that lacks the "len(files) == 0" return
CollectNoEmptyCheck ==
    /\ mpc = "collect" /\ ~panic
    /\ IF collectJSONLFiles(directory).err
       THEN /\ mpc' = "returned"
            /\ ret' = [kind |-> "error", why |-> "walk"]
            /\ UNCHANGED <<files, chans, taken, merged>>
       ELSE /\ mpc' = "spawn"
            /\ files' = collectJSONLFiles(directory).files
            /\ chans' = TRUE
            /\ taken' = [n \in 1..Len(collectJSONLFiles(directory).files) |-> <<>>]
            /\ UNCHANGED <<ret, merged>>
    /\ UNCHANGED <<config, directory, jobs, jobsClosed, results, resultsClosed,
                   wg, spawned, wpc, wres, dpc, sent, wtpc, totalCounts,
                   totalLines, errors, panic, pf, fx>>

\* files, err := collectJSONLFiles(directory), the two early returns, and
\* the making of the two channels
Collect ==
    /\ mpc = "collect" /\ ~panic
    /\ LET c == collectJSONLFiles(directory)
       IN  IF c.err
           THEN /\ mpc' = "returned"
                /\ ret' = [kind |-> "error", why |-> "walk"]
                /\ UNCHANGED <<files, chans, taken, merged>>
           ELSE IF Len(c.files) = 0
           THEN /\ mpc' = "returned"
                /\ ret' = [kind |-> "error", why |-> "nofiles"]
                /\ UNCHANGED <<files, chans, taken, merged>>
           ELSE /\ mpc' = "spawn"
                /\ files' = c.files
                /\ chans' = TRUE
                /\ taken' = [n \in 1..Len(c.files) |-> <<>>]
                /\ UNCHANGED <<ret, merged>>
    /\ UNCHANGED <<config, directory, jobs, jobsClosed, results, resultsClosed,
                   wg, spawned, wpc, wres, dpc, sent, wtpc, totalCounts,
                   totalLines, errors, panic>>
    /\ UNCHANGED <<pf, fx>>

\* one iteration of "for i := 0; i < config.Workers; i++"
SpawnWorker ==
    /\ mpc = "spawn" /\ ~panic
    /\ spawned < config.Workers
    /\ wg' = wg + 1
    /\ wpc' = [wpc EXCEPT ![spawned + 1] = "recv"]
    /\ spawned' = spawned + 1
    /\ UNCHANGED <<config, directory, mpc, files, chans, jobs, jobsClosed,
                   results, resultsClosed, wres, dpc, sent, wtpc, totalCounts,
                   totalLines, errors, ret, panic, taken, merged>>
    /\ UNCHANGED <<pf, fx>>

\* go func() { for _, file := range files ... }()
GoDispatch ==
    /\ mpc = "spawn" /\ ~panic
    /\ spawned >= config.Workers
    /\ dpc' = "send"
    /\ mpc' = "gowait"
    /\ UNCHANGED <<config, directory, files, chans, jobs, jobsClosed, results,
                   resultsClosed, wg, spawned, wpc, wres, sent, wtpc,
                   totalCounts, totalLines, errors, ret, panic, taken, merged>>
    /\ UNCHANGED <<pf, fx>>

\* go func() { wg.Wait(); close(results) }()
GoWait ==
    /\ mpc = "gowait" /\ ~panic
    /\ wtpc' = "wait"
    /\ mpc' = "drain"
    /\ UNCHANGED <<config, directory, files, chans, jobs, jobsClosed, results,
                   resultsClosed, wg, spawned, wpc, wres, dpc, sent,
                   totalCounts, totalLines, errors, ret, panic, taken, merged>>
    /\ UNCHANGED <<pf, fx>>

\* jobs := make(chan Job, len(files))
JobsCap == Len(files)

\* a faulty result channel, sized by the number of workers
ResultsCapByWorkers == config.Workers

\* results := make(chan WorkerResult, len(files))
ResultsCap == Len(files)

(***************************************************************************)
(* The goroutine that sends the jobs.                                      *)
(***************************************************************************)
\* jobs <- Job{FilePath: file, LabelKey: config.LabelKey}
DispatchSend ==
    /\ dpc = "send" /\ ~panic
    /\ sent < Len(files)
    /\ Len(jobs) < JobsCap
    /\ IF jobsClosed
       THEN panic' = TRUE /\ UNCHANGED <<jobs, sent>>
       ELSE /\ jobs' = Append(jobs, [FilePath |-> files[sent + 1],
                                     LabelKey |-> config.LabelKey,
                                     of |-> sent + 1])
            /\ sent' = sent + 1
            /\ UNCHANGED panic
    /\ UNCHANGED <<config, directory, mpc, files, chans, jobsClosed, results,
                   resultsClosed, wg, spawned, wpc, wres, dpc, wtpc,
                   totalCounts, totalLines, errors, ret, taken, merged>>
    /\ UNCHANGED <<pf, fx>>

\* a faulty sender that may close jobs before the range over files ends
DispatchCloseEarly ==
    /\ dpc = "send" /\ ~panic
    /\ IF jobsClosed THEN panic' = TRUE ELSE UNCHANGED panic
    /\ jobsClosed' = TRUE
    /\ dpc' = IF sent >= Len(files) THEN "done" ELSE "send"
    /\ UNCHANGED <<config, directory, mpc, files, chans, jobs, results,
                   resultsClosed, wg, spawned, wpc, wres, sent, wtpc,
                   totalCounts, totalLines, errors, ret, taken, merged, pf, fx>>

\* close(jobs)
DispatchClose ==
    /\ dpc = "send" /\ ~panic
    /\ sent >= Len(files)
    /\ IF jobsClosed THEN panic' = TRUE ELSE UNCHANGED panic
    /\ jobsClosed' = TRUE
    /\ dpc' = "done"
    /\ UNCHANGED <<config, directory, mpc, files, chans, jobs, results,
                   resultsClosed, wg, spawned, wpc, wres, sent, wtpc,
                   totalCounts, totalLines, errors, ret, taken, merged>>
    /\ UNCHANGED <<pf, fx>>

\* a faulty merge, "totalCounts[label] = count": the last result to arrive
\* wins
MergeOverwrite(total, counts) ==
    [l \in DOMAIN total \cup DOMAIN counts |->
        IF l \in DOMAIN counts THEN counts[l] ELSE total[l]]

\* "for label, count := range result.Counts { totalCounts[label] += count }"
MergeCounts(total, counts) ==
    [l \in DOMAIN total \cup DOMAIN counts |-> Get(total, l) + Get(counts, l)]

(***************************************************************************)
(* worker                                                                  *)
(***************************************************************************)
\* WorkerResult{Counts: counts, Lines: lines, Error: err}, with the history
\* field "of": the file the result is of
MakeResult(r, of) ==
    [Counts |-> r.Counts, Lines |-> r.Lines, Error |-> r.Error, of |-> of]

\* processFile on every path, file, key and flag of the inputs above,
\* evaluated once: <<path, file, labelKey, fastParse, what it returns>>
Processed ==
    {<<p, f, k, fp, processFile(p, f, k, fp)>> :
        p \in 1..MaxFiles, f \in EntryKinds, k \in {labelText, xText},
        fp \in BOOLEAN}

\* processFile(p, f, k, fp), looked up
ProcessedFile(p, f, k, fp) ==
    (CHOOSE t \in Processed :
        t[1] = p /\ t[2] = f /\ t[3] = k /\ t[4] = fp)[5]

\* what a worker does with a job, up to the send
RunJob(job) ==
    MakeResult(ProcessedFile(job.FilePath, directory.entries[job.FilePath],
                             job.LabelKey, config.UseFastParse),
               job.of)

\* "for job := range jobs" receives a job; processFile runs on it
WorkerRecv(w) ==
    /\ wpc[w] = "recv" /\ ~panic
    /\ jobs # <<>>
    /\ wres' = [wres EXCEPT ![w] = RunJob(Head(jobs))]
    /\ taken' = [taken EXCEPT ![Head(jobs).of] = Append(@, w)]
    /\ jobs' = Tail(jobs)
    /\ wpc' = [wpc EXCEPT ![w] = "send"]
    /\ UNCHANGED <<config, directory, mpc, files, chans, jobsClosed, results,
                   resultsClosed, wg, spawned, dpc, sent, wtpc, totalCounts,
                   totalLines, errors, ret, panic, merged>>
    /\ UNCHANGED <<pf, fx>>

\* a faulty worker that also adds its counts to the table of the run
WorkerSendMerging(w) ==
    /\ wpc[w] = "send" /\ ~panic
    /\ Len(results) < ResultsCap
    /\ IF resultsClosed
       THEN panic' = TRUE /\ UNCHANGED <<results, wpc, wres, totalCounts>>
       ELSE /\ results' = Append(results, wres[w])
            /\ totalCounts' = MergeCounts(totalCounts, wres[w].Counts)
            /\ wpc' = [wpc EXCEPT ![w] = "recv"]
            /\ wres' = [wres EXCEPT ![w] = NoResult]
            /\ UNCHANGED panic
    /\ UNCHANGED <<config, directory, mpc, files, chans, jobs, jobsClosed,
                   resultsClosed, wg, spawned, dpc, sent, wtpc, totalLines,
                   errors, ret, taken, merged, pf, fx>>

\* results <- WorkerResult{...}
WorkerSend(w) ==
    /\ wpc[w] = "send" /\ ~panic
    /\ Len(results) < ResultsCap
    /\ IF resultsClosed
       THEN panic' = TRUE /\ UNCHANGED <<results, wpc, wres>>
       ELSE /\ results' = Append(results, wres[w])
            /\ wpc' = [wpc EXCEPT ![w] = "recv"]
            /\ wres' = [wres EXCEPT ![w] = NoResult]
            /\ UNCHANGED panic
    /\ UNCHANGED <<config, directory, mpc, files, chans, jobs, jobsClosed,
                   resultsClosed, wg, spawned, dpc, sent, wtpc, totalCounts,
                   totalLines, errors, ret, taken, merged>>
    /\ UNCHANGED <<pf, fx>>

\* a faulty worker that returns without wg.Done()
WorkerExitNoDone(w) ==
    /\ wpc[w] = "recv" /\ ~panic
    /\ jobs = <<>> /\ jobsClosed
    /\ wpc' = [wpc EXCEPT ![w] = "exited"]
    /\ UNCHANGED <<config, directory, mpc, files, chans, jobs, jobsClosed,
                   results, resultsClosed, wg, spawned, wres, dpc, sent, wtpc,
                   totalCounts, totalLines, errors, ret, panic, taken, merged,
                   pf, fx>>

\* the range over jobs ends: the channel is closed and drained; wg.Done()
WorkerExit(w) ==
    /\ wpc[w] = "recv" /\ ~panic
    /\ jobs = <<>> /\ jobsClosed
    /\ wpc' = [wpc EXCEPT ![w] = "exited"]
    /\ wg' = wg - 1
    /\ UNCHANGED <<config, directory, mpc, files, chans, jobs, jobsClosed,
                   results, resultsClosed, spawned, wres, dpc, sent, wtpc,
                   totalCounts, totalLines, errors, ret, panic, taken, merged>>
    /\ UNCHANGED <<pf, fx>>

(***************************************************************************)
(* The goroutine that waits for the workers.                               *)
(***************************************************************************)
\* a faulty waiter that closes results without wg.Wait()
WaitCloseEarly ==
    /\ wtpc = "wait" /\ ~panic
    /\ IF resultsClosed THEN panic' = TRUE ELSE UNCHANGED panic
    /\ resultsClosed' = TRUE
    /\ wtpc' = "done"
    /\ UNCHANGED <<config, directory, mpc, files, chans, jobs, jobsClosed,
                   results, wg, spawned, wpc, wres, dpc, sent, totalCounts,
                   totalLines, errors, ret, taken, merged, pf, fx>>

\* wg.Wait() returns; close(results)
WaitClose ==
    /\ wtpc = "wait" /\ ~panic
    /\ wg = 0
    /\ IF resultsClosed THEN panic' = TRUE ELSE UNCHANGED panic
    /\ resultsClosed' = TRUE
    /\ wtpc' = "done"
    /\ UNCHANGED <<config, directory, mpc, files, chans, jobs, jobsClosed,
                   results, wg, spawned, wpc, wres, dpc, sent, totalCounts,
                   totalLines, errors, ret, taken, merged>>
    /\ UNCHANGED <<pf, fx>>

(***************************************************************************)
(* countLabels: the loop over results, the ranking and the return.         *)
(***************************************************************************)
\* a faulty loop body that lacks the "result.Error != nil" test
AccumulateAlwaysAppend(acc, result) ==
    [acc EXCEPT !.errors = Append(@, result.Error),
                !.totalCounts = MergeCounts(@, result.Counts),
                !.totalLines = @ + result.Lines]

\* the body of "for result := range results" on acc = [totalCounts,
\* totalLines, errors]
Accumulate(acc, result) ==
    IF result.Error # NoErr
    THEN [acc EXCEPT !.errors = Append(@, result.Error)]
    ELSE [acc EXCEPT !.totalCounts = MergeCounts(@, result.Counts),
                     !.totalLines = @ + result.Lines]

\* one iteration of "for result := range results"
Aggregate ==
    /\ mpc = "drain" /\ ~panic
    /\ results # <<>>
    /\ LET acc == Accumulate([totalCounts |-> totalCounts,
                              totalLines |-> totalLines,
                              errors |-> errors], Head(results))
       IN  /\ totalCounts' = acc.totalCounts
           /\ totalLines' = acc.totalLines
           /\ errors' = acc.errors
    /\ merged' = Append(merged, Head(results).of)
    /\ results' = Tail(results)
    /\ UNCHANGED <<config, directory, mpc, files, chans, jobs, jobsClosed,
                   resultsClosed, wg, spawned, wpc, wres, dpc, sent, wtpc,
                   ret, panic, taken>>
    /\ UNCHANGED <<pf, fx>>

\* a faulty return that turns per-file errors into a failure of the run
MakeReportOrFail(order) ==
    IF errors # <<>> THEN [kind |-> "error", why |-> "files"]
    ELSE [kind |-> "result",
          FilesProcessed |-> Len(files),
          TotalLines |-> totalLines,
          UniqueLabels |-> Cardinality(DOMAIN totalCounts),
          LabelCounts |-> totalCounts,
          SortedLabels |-> SortedLabelsOf(totalCounts, order),
          Errors |-> errors]

\* the Result countLabels returns for one visiting order of totalCounts (its
\* two timing fields are left out)
MakeReport(order) ==
    [kind |-> "result",
     FilesProcessed |-> Len(files),
     TotalLines |-> totalLines,
     UniqueLabels |-> Cardinality(DOMAIN totalCounts),
     LabelCounts |-> totalCounts,
     SortedLabels |-> SortedLabelsOf(totalCounts, order),
     Errors |-> errors]

\* the range over results ends; sortedLabels is built and sorted; the Result
\* is returned
Finish ==
    /\ mpc = "drain" /\ ~panic
    /\ results = <<>> /\ resultsClosed
    /\ \E order \in RangeOrders(totalCounts) : ret' = MakeReport(order)
    /\ mpc' = "returned"
    /\ UNCHANGED <<config, directory, files, chans, jobs, jobsClosed, results,
                   resultsClosed, wg, spawned, wpc, wres, dpc, sent, wtpc,
                   totalCounts, totalLines, errors, panic, taken, merged>>
    /\ UNCHANGED <<pf, fx>>

Main == Collect \/ SpawnWorker \/ GoDispatch \/ GoWait \/ Aggregate \/ Finish
Dispatcher == DispatchSend \/ DispatchClose
Worker(w) == WorkerRecv(w) \/ WorkerSend(w) \/ WorkerExit(w)

Next ==
    \/ Collect
    \/ SpawnWorker
    \/ GoDispatch
    \/ GoWait
    \/ DispatchSend
    \/ DispatchClose
    \/ \E w \in Workers : WorkerRecv(w)
    \/ \E w \in Workers : WorkerSend(w)
    \/ \E w \in Workers : WorkerExit(w)
    \/ WaitClose
    \/ Aggregate
    \/ Finish

Spec == Init /\ [][Next]_vars

\* every goroutine that can take a step eventually takes one
Fairness ==
    /\ WF_vars(Main)
    /\ WF_vars(Dispatcher)
    /\ \A w \in Workers : WF_vars(Worker(w))
    /\ WF_vars(WaitClose)

LiveSpec == Init /\ [][Next]_vars /\ Fairness

(***************************************************************************)
(* processFile, line by line: one call processFile(1, config.LabelKey,     *)
(* config.UseFastParse) on the file directory.entries[1].                  *)
(***************************************************************************)
lineBlank == <<>>
lineBoth == <<LBRACE>> \o Str(xText) \o <<COLON>> \o Str(<<97>>) \o <<COMMA>>
            \o Str(labelText) \o <<COLON>> \o Str(<<98>>) \o <<RBRACE>>
lineSpaced == <<LBRACE>> \o Str(labelText) \o <<SP, COLON, SP>> \o Str(<<97>>)
              \o <<RBRACE>>
lineNum == Rec1(labelText, <<49>>)
lineNull == Rec1(labelText, nullLit)
lineXEmpty == Rec1(xText, Str(<<>>))
lineText == labelText

\* {"label":"cat","x":1}
lineCatX == <<LBRACE>> \o Str(labelText) \o <<COLON>> \o Str(<<99, 97, 116>>)
            \o <<COMMA>> \o Str(xText) \o <<COLON, 49, RBRACE>>
\* {"label": "a"}
lineColonSp == <<LBRACE>> \o Str(labelText) \o <<COLON, SP>> \o Str(<<97>>)
               \o <<RBRACE>>
\* {"label":\r"a,b"}
lineCRVal == <<LBRACE>> \o Str(labelText) \o <<COLON, CR>>
             \o Str(<<97, COMMA, 98>>) \o <<RBRACE>>

FileLines ==
    {lineA, lineB, lineXA, lineEmptyVal, lineCut, lineCR, lineBlank, lineBoth,
     lineSpaced, lineNum, lineNull, lineXEmpty, lineText, lineCatX,
     lineColonSp, lineCRVal}

fileName == <<102>> \o jsonlExt

FileInputs ==
    {Entry(fileName, TRUE, <<>>, FALSE)}
    \cup {Entry(fileName, FALSE, raw, e) :
            raw \in SeqsUpTo(FileLines, MaxLines), e \in BOOLEAN}

FileInit ==
    /\ config \in {c \in Configs : c.Workers = 1}
    /\ directory \in {[walkErr |-> FALSE, entries |-> <<f>>] : f \in FileInputs}
    /\ Start
    /\ pf = [NoCall EXCEPT !.pc = "open"]
    /\ fx = NoFx

\* file, err := os.Open(filePath) and what follows it up to the loop
PFOpen ==
    /\ pf.pc = "open"
    /\ IF directory.entries[1].openErr
       THEN pf' = [pf EXCEPT !.pc = "returned",
                             !.ret = MakeResult(
                                 [Counts |-> EmptyMap, Lines |-> 0,
                                  Error |-> Err("open", 1)], 1)]
       ELSE pf' = [pf EXCEPT !.pc = "scan"]
    /\ UNCHANGED <<config, directory, mpc, files, chans, jobs, jobsClosed,
                   results, resultsClosed, wg, spawned, wpc, wres, dpc, sent,
                   wtpc, totalCounts, totalLines, errors, ret, panic, taken,
                   merged, fx>>

\* the label variable of one iteration: empty when the line is skipped
LabelVar(line, labelKey, fastParse) ==
    IF line = <<>> THEN <<>> ELSE ExtractLabel(line, labelKey, fastParse).label

\* the scan loop's state after one more line
PFStep(st, raw) ==
    [pf EXCEPT !.idx = @ + 1,
               !.counts = st.counts,
               !.lineCount = st.lineCount,
               !.label = LabelVar(ScanText(raw), config.LabelKey,
                                  config.UseFastParse)]

\* scanner.Scan() delivers the next line; the loop body runs on it
PFScan ==
    /\ pf.pc = "scan"
    /\ pf.idx < Len(directory.entries[1].raw)
    /\ pf' = PFStep(ScanLine([counts |-> pf.counts, lineCount |-> pf.lineCount],
                             directory.entries[1].raw[pf.idx + 1],
                             config.LabelKey, config.UseFastParse),
                    directory.entries[1].raw[pf.idx + 1])
    /\ UNCHANGED <<config, directory, mpc, files, chans, jobs, jobsClosed,
                   results, resultsClosed, wg, spawned, wpc, wres, dpc, sent,
                   wtpc, totalCounts, totalLines, errors, ret, panic, taken,
                   merged, fx>>

\* scanner.Scan() returns false; the check of scanner.Err() and the return
PFReturn ==
    /\ pf.pc = "scan"
    /\ pf.idx >= Len(directory.entries[1].raw)
    /\ pf' = [pf EXCEPT !.pc = "returned",
                        !.ret = MakeResult(
                            Returned([counts |-> pf.counts,
                                      lineCount |-> pf.lineCount],
                                     1, directory.entries[1].readErr), 1)]
    /\ UNCHANGED <<config, directory, mpc, files, chans, jobs, jobsClosed,
                   results, resultsClosed, wg, spawned, wpc, wres, dpc, sent,
                   wtpc, totalCounts, totalLines, errors, ret, panic, taken,
                   merged, fx>>

FileNext == PFOpen \/ PFScan \/ PFReturn

FileSpec == FileInit /\ [][FileNext]_vars

\* the line by line run returns what processFile returns
PFAgrees ==
    pf.pc = "returned" =>
        pf.ret = MakeResult(processFile(1, directory.entries[1], config.LabelKey,
                                        config.UseFastParse), 1)

(***************************************************************************)
(* Properties of a run of countLabels.                                     *)
(***************************************************************************)
RECURSIVE SumSeq(_)
SumSeq(ns) == IF ns = <<>> THEN 0 ELSE Head(ns) + SumSeq(Tail(ns))

NFiles == Len(files)
FileIds == 1..NFiles

\* countLabels has returned a Result
Finished == mpc = "returned" /\ ret.kind = "result"

\* what processFile returns for the n-th collected file
ResultOf(n) ==
    ProcessedFile(files[n], directory.entries[files[n]], config.LabelKey,
                  config.UseFastParse)

OpenFailed(n) == directory.entries[files[n]].openErr
ReadFailed(n) == ~OpenFailed(n) /\ directory.entries[files[n]].readErr

\* the positions of the error entries that name the n-th file
ErrorsFor(es, n) == {i \in 1..Len(es) : es[i].path = files[n]}

\* the sum over the files in S of what each returned for label l, and of the
\* lines each counted
ReturnedCount(S, l) ==
    SumSeq([n \in FileIds |-> IF n \in S THEN Get(ResultOf(n).Counts, l) ELSE 0])
ReturnedLines(S) ==
    SumSeq([n \in FileIds |-> IF n \in S THEN ResultOf(n).Lines ELSE 0])
ReturnedLabels(S) == UNION {DOMAIN ResultOf(n).Counts : n \in S}

\* what the loop over results makes of the result of the n-th file alone
AloneOf(n) ==
    Accumulate([totalCounts |-> EmptyMap, totalLines |-> 0, errors |-> <<>>],
               ResultOf(n))

\* the table and the line total of a run over the files in S only: label by
\* label, the sum of what each file alone leaves in the table
TableOver(S) ==
    [l \in UNION {DOMAIN AloneOf(n).totalCounts : n \in S} |->
        SumSeq([n \in FileIds |->
                  IF n \in S THEN Get(AloneOf(n).totalCounts, l) ELSE 0])]
LinesOver(S) ==
    SumSeq([n \in FileIds |-> IF n \in S THEN AloneOf(n).totalLines ELSE 0])

\* C1: a file whose read fails after K counted lines leaves exactly one error
\* entry naming it, and the final table and line total hold what every file
\* returned, the K values of the failed file among them.
C1_PartialCountsKept ==
    Finished =>
        /\ \A n \in FileIds :
              ReadFailed(n) => Cardinality(ErrorsFor(ret.Errors, n)) = 1
        /\ \A l \in ReturnedLabels(FileIds) :
              Get(ret.LabelCounts, l) = ReturnedCount(FileIds, l)

\* C2: the final table, line total and ranked list are a function of the set
\* of files alone: whatever the order of the jobs and of the results, they are
\* the label-wise sums over the files and the ranking of that table.
C2_OrderIndependent ==
    Finished =>
        /\ ret.LabelCounts = TableOver(FileIds)
        /\ ret.TotalLines = LinesOver(FileIds)
        /\ ret.SortedLabels =
              SortedLabelsOf(TableOver(FileIds),
                             SortedKeys(DOMAIN TableOver(FileIds)))

\* a run of two files and two workers in which each worker took one job, the
\* results were merged in the order opposite to the jobs, and the table has
\* a tie
C2_Witness ==
    /\ Finished
    /\ NFiles = 2
    /\ taken = <<(<<2>>), (<<1>>)>>
    /\ merged = <<2, 1>>
    /\ \E a, b \in DOMAIN ret.LabelCounts :
          a # b /\ ret.LabelCounts[a] = ret.LabelCounts[b]

\* the run is over: countLabels has returned, and if it returned a Result all
\* jobs were sent, both channels are closed and every worker has exited
RunOver ==
    /\ mpc = "returned"
    /\ (~directory.walkErr /\ WalkFrom(directory.entries, 1) # <<>>) =>
          /\ ret.kind = "result"
          /\ sent = NFiles /\ jobsClosed /\ resultsClosed
          /\ dpc = "done" /\ wtpc = "done"
          /\ \A w \in 1..config.Workers : wpc[w] = "exited"

\* C3: under fair scheduling every run ends: countLabels returns, and with
\* one file or more it returns a Result after all jobs were sent, the job
\* queue closed, every worker gone and the result queue closed.
C3_Terminates == <>RunOver

C3_Witness ==
    /\ RunOver
    /\ ret.kind = "result"
    /\ NFiles = MaxFiles
    /\ config.Workers = MaxWorkers

\* how often x occurs in the sequence q
Occurrences(q, x) == Cardinality({i \in 1..Len(q) : q[i] = x})

\* C4: every file has one job, one worker takes it once, one result is made
\* of it, and the loop over results sees that result once before it ends.
C4_ExactlyOnce ==
    /\ \A n \in FileIds :
          /\ Occurrences([i \in 1..Len(jobs) |-> jobs[i].of], n) + Len(taken[n])
                = IF n <= sent THEN 1 ELSE 0
          /\ Len(taken[n])
                = Cardinality({w \in Workers : wpc[w] = "send" /\ wres[w].of = n})
                  + Occurrences([i \in 1..Len(results) |-> results[i].of], n)
                  + Occurrences(merged, n)
    /\ Finished => \A n \in FileIds : Len(taken[n]) = 1 /\ Occurrences(merged, n) = 1

C4_Witness ==
    /\ Finished
    /\ NFiles = MaxFiles
    /\ config.Workers = MaxWorkers
    /\ \A n \in FileIds : Len(taken[n]) = 1

\* C5: a file that cannot be opened does not stop the run: a Result is
\* returned, the file has exactly one error entry, an open failure, and the
\* table and line total are those of the run over the other files.
C5_OpenFailureIsolated ==
    /\ (mpc = "returned" /\ files # <<>>) => ret.kind = "result"
    /\ Finished =>
          /\ \A n \in FileIds :
                OpenFailed(n) =>
                    /\ Cardinality(ErrorsFor(ret.Errors, n)) = 1
                    /\ \A i \in ErrorsFor(ret.Errors, n) :
                          ret.Errors[i].kind = "open"
          /\ ret.LabelCounts = TableOver({n \in FileIds : ~OpenFailed(n)})
          /\ ret.TotalLines = LinesOver({n \in FileIds : ~OpenFailed(n)})
          /\ \A n \in FileIds :
                ResultOf(n).Error = NoErr =>
                    \A l \in DOMAIN ResultOf(n).Counts :
                        Get(ret.LabelCounts, l) >= ResultOf(n).Counts[l]

\* a finished run over a file that cannot be opened and one that counts lines
C5_Witness ==
    /\ Finished
    /\ \E n, m \in FileIds :
          /\ OpenFailed(n)
          /\ ResultOf(m).Error = NoErr /\ ResultOf(m).Lines > 0
    /\ ret.TotalLines > 0

\* C6: the line total of the Result is the sum of the line counts of the
\* results processFile returned, one per file.
C6_TotalIsSumOfResults == Finished => ret.TotalLines = ReturnedLines(FileIds)

\* C10: when the walk fails or finds no matching file, countLabels returns an
\* error, and no channel is made, no worker started and no job sent.
C10_DirectoryFailureAborts ==
    (directory.walkErr \/ WalkFrom(directory.entries, 1) = <<>>) =>
        /\ mpc = "returned" => ret.kind = "error"
        /\ ~chans /\ spawned = 0 /\ wg = 0
        /\ \A w \in Workers : wpc[w] = "none"
        /\ dpc = "none" /\ wtpc = "none" /\ sent = 0 /\ jobs = <<>>
        /\ mpc \in {"collect", "returned"}

\* the run over a directory that holds only a file that does not match
C10_Witness ==
    /\ mpc = "returned"
    /\ ~directory.walkErr
    /\ directory.entries # <<>>
    /\ ret = [kind |-> "error", why |-> "nofiles"]

\* C13: the job queue is closed only once all N jobs were sent, the result
\* queue only once every worker has exited; no send or close ever meets a
\* closed queue, and no result is made or sent once results is closed.
C13_CloseOrdering ==
    /\ ~panic
    /\ jobsClosed => (sent = NFiles /\ dpc = "done")
    /\ resultsClosed =>
          /\ jobsClosed /\ jobs = <<>>
          /\ spawned = config.Workers /\ wg = 0
          /\ \A w \in 1..config.Workers : wpc[w] = "exited"
    /\ \A w \in Workers : wpc[w] = "send" => ~resultsClosed
    /\ (dpc = "send" /\ sent < NFiles) => ~jobsClosed

\* both queues are closed after a run of MaxFiles files and MaxWorkers
\* workers, and results still holds a result
C13_Witness ==
    /\ jobsClosed /\ resultsClosed
    /\ NFiles = MaxFiles /\ config.Workers = MaxWorkers
    /\ results # <<>>

\* C14: neither queue ever holds more than N items, so a send never waits:
\* whenever the sender has a job to send there is room in jobs, and whenever
\* a worker has a result to send there is room in results, also while the
\* loop over results has not begun.
C14_CapacitiesSuffice ==
    /\ Len(jobs) <= NFiles
    /\ Len(results) <= NFiles
    /\ (dpc = "send" /\ sent < NFiles) => Len(jobs) < JobsCap
    /\ \A w \in Workers : wpc[w] = "send" => Len(results) < ResultsCap

\* every result is buffered before the loop over results has begun, while a
\* single worker did all the files
C14_Witness ==
    /\ mpc = "gowait"
    /\ NFiles = MaxFiles
    /\ config.Workers = 1
    /\ Len(results) = NFiles
    /\ merged = <<>>

\* the workers that hold a result of the n-th file, and the places of its
\* results in the queue
HoldersOf(n) == {w \in Workers : wpc[w] = "send" /\ wres[w].of = n}
QueuedOf(n) == {i \in 1..Len(results) : results[i].of = n}

\* C15: the table, the line total and the error list change only in a step
\* of the loop over results; a worker's result changes only in that worker's
\* own steps; the counts of a file are held by one task at a time, first the
\* worker that made them and then the queue, and they are what processFile
\* returned from the first moment on.
C15_SingleWriter ==
    /\ [][(totalCounts' # totalCounts \/ totalLines' # totalLines
             \/ errors' # errors) =>
              /\ mpc = "drain" /\ results # <<>> /\ results' = Tail(results)
              /\ wpc' = wpc /\ wres' = wres /\ dpc' = dpc /\ wtpc' = wtpc]_vars
    /\ [][\A w \in Workers :
              wres'[w] # wres[w] =>
                  /\ wpc'[w] # wpc[w]
                  /\ \A v \in Workers \ {w} :
                        wres'[v] = wres[v] /\ wpc'[v] = wpc[v]
                  /\ mpc' = mpc /\ totalCounts' = totalCounts]_vars
    /\ [](\A n \in FileIds :
              /\ Cardinality(HoldersOf(n)) + Cardinality(QueuedOf(n)) <= 1
              /\ \A w \in HoldersOf(n) : wres[w] = MakeResult(ResultOf(n), n)
              /\ \A i \in QueuedOf(n) : results[i] = MakeResult(ResultOf(n), n))

\* a worker holds the counts of one file while the loop over results has
\* merged those of another
C15_Witness ==
    /\ mpc = "drain"
    /\ totalCounts # EmptyMap
    /\ \E w \in Workers :
          /\ wpc[w] = "send"
          /\ wres[w].Counts # EmptyMap
          /\ wres[w].of \notin {merged[i] : i \in 1..Len(merged)}

\* the sum of the counts of a table
Total(m) ==
    SumSeq([i \in 1..Cardinality(DOMAIN m) |-> m[SortedKeys(DOMAIN m)[i]]])

\* C16: at every moment the counts of the table of the run add up to its line
\* total, and so do those of the Result; the counts of every WorkerResult add
\* up to its line count, whether its file failed or not.
C16_CountsMatchLines ==
    /\ Total(totalCounts) = totalLines
    /\ Finished => Total(ret.LabelCounts) = ret.TotalLines
    /\ \A w \in Workers : Total(wres[w].Counts) = wres[w].Lines
    /\ \A i \in 1..Len(results) : Total(results[i].Counts) = results[i].Lines

\* a finished run over a file that failed after counted lines and a file that
\* holds lines without a value, with lines counted
C16_Witness ==
    /\ Finished
    /\ \E n \in FileIds : ReadFailed(n) /\ ResultOf(n).Lines > 0
    /\ \E n \in FileIds :
          /\ ResultOf(n).Error = NoErr
          /\ ResultOf(n).Lines < Len(directory.entries[files[n]].raw)
    /\ ret.TotalLines > 0

\* the files whose processFile returned an error
FailedFiles == {n \in FileIds : ResultOf(n).Error # NoErr}

\* C18: the error list of the Result holds the error of each failed file
\* once and nothing else, so it is as long as the number of failed files and
\* no longer than FilesProcessed.
C18_ErrorListExact ==
    /\ Len(errors) <= Len(merged)
    /\ Finished =>
          /\ \A n \in FileIds :
                Cardinality(ErrorsFor(ret.Errors, n))
                    = IF n \in FailedFiles THEN 1 ELSE 0
          /\ \A i \in 1..Len(ret.Errors) :
                \E n \in FailedFiles : ret.Errors[i] = ResultOf(n).Error
          /\ Len(ret.Errors) = Cardinality(FailedFiles)
          /\ Len(ret.Errors) <= ret.FilesProcessed

\* a finished run over a file that cannot be opened, merged last, and one
\* without error, merged first
C18_Witness ==
    /\ Finished
    /\ NFiles = 2
    /\ merged = <<2, 1>>
    /\ OpenFailed(1)
    /\ FailedFiles = {1}
    /\ Len(ret.Errors) = 1

(***************************************************************************)
(* The ranking on any table: the end of a run over one file, a.jsonl-like, *)
(* whose lines give the table (label l on table[l] lines), just before the *)
(* loop over results ends.                                                 *)
(***************************************************************************)
\* "B" < "a" < "ab" < "b" byte-wise
RankLabels == {<<97>>, <<98>>, <<97, 98>>, <<66>>}

Tables == UNION {[S -> 1..MaxCount] : S \in SUBSET RankLabels}

RECURSIVE Repeat(_, _)
Repeat(x, n) == IF n = 0 THEN <<>> ELSE <<x>> \o Repeat(x, n - 1)

RECURSIVE LinesOf(_, _)
LinesOf(table, keys) ==
    IF keys = <<>> THEN <<>>
    ELSE Repeat(Rec1(labelText, Str(Head(keys))), table[Head(keys)])
         \o LinesOf(table, Tail(keys))

RankInit ==
    \E table \in Tables :
        /\ config = [LabelKey |-> labelText, Workers |-> 1, UseFastParse |-> TRUE]
        /\ directory =
              [walkErr |-> FALSE,
               entries |-> <<Entry(fileName, FALSE,
                                   LinesOf(table, SortedKeys(DOMAIN table)),
                                   FALSE)>>]
        /\ mpc = "drain"
        /\ files = <<1>>
        /\ chans = TRUE
        /\ jobs = <<>>
        /\ jobsClosed = TRUE
        /\ results = <<>>
        /\ resultsClosed = TRUE
        /\ wg = 0
        /\ spawned = 1
        /\ wpc = [w \in Workers |-> IF w = 1 THEN "exited" ELSE "none"]
        /\ wres = [w \in Workers |-> NoResult]
        /\ dpc = "done"
        /\ sent = 1
        /\ wtpc = "done"
        /\ totalCounts = table
        /\ totalLines = SumSeq([n \in 1..Len(SortedKeys(DOMAIN table)) |->
                                  table[SortedKeys(DOMAIN table)[n]]])
        /\ errors = <<>>
        /\ ret = NoReturn
        /\ panic = FALSE
        /\ taken = <<(<<1>>)>>
        /\ merged = <<1>>
        /\ pf = NoCall
        /\ fx = NoFx

RankNext == Finish

RankSpec == RankInit /\ [][RankNext]_vars

\* the table and the line total are what processFile counts in the file
RankInputsCounted ==
    mpc = "drain" =>
        /\ totalCounts = processFile(1, directory.entries[1], config.LabelKey,
                                     config.UseFastParse).Counts
        /\ totalLines = processFile(1, directory.entries[1], config.LabelKey,
                                    config.UseFastParse).Lines

\* a before b in byte-wise lexicographic order: they agree on k bytes, and
\* then a ends first or has the smaller byte
ByteLess(a, b) ==
    \E k \in 0..Len(a) :
        /\ k <= Len(b)
        /\ \A i \in 1..k : a[i] = b[i]
        /\ \/ k = Len(a) /\ k < Len(b)
           \/ k < Len(a) /\ k < Len(b) /\ a[k + 1] < b[k + 1]

\* C7: the ranked list holds each key of the table once, with its count,
\* ordered by count descending and, for equal counts, by label ascending
\* byte-wise; so a table has one ranked list.
C7_RankedList ==
    Finished =>
        /\ Len(ret.SortedLabels) = Cardinality(DOMAIN ret.LabelCounts)
        /\ \A l \in DOMAIN ret.LabelCounts :
              \E i \in 1..Len(ret.SortedLabels) :
                  ret.SortedLabels[i] = [Label |-> l, Count |-> ret.LabelCounts[l]]
        /\ \A i, j \in 1..Len(ret.SortedLabels) :
              i < j =>
                 \/ ret.SortedLabels[i].Count > ret.SortedLabels[j].Count
                 \/ /\ ret.SortedLabels[i].Count = ret.SortedLabels[j].Count
                    /\ ByteLess(ret.SortedLabels[i].Label, ret.SortedLabels[j].Label)

\* counts {b:3, a:3} ranked as [(a,3), (b,3)]
C7_Witness ==
    /\ Finished
    /\ ret.LabelCounts = [l \in {<<97>>, <<98>>} |-> 3]
    /\ ret.SortedLabels = <<[Label |-> <<97>>, Count |-> 3],
                            [Label |-> <<98>>, Count |-> 3]>>

(***************************************************************************)
(* Properties of a call of processFile.                                    *)
(***************************************************************************)
\* the line the scan loop handled last
LastLine == ScanText(directory.entries[1].raw[pf.idx])

\* the pattern the fast strategy is to look for, for key k: "k":
PatternOf(k) == <<DQ>> \o k \o <<DQ, COLON>>

\* C8: with fast parsing, the label of a line is the value that follows the
\* pattern "k": for the key k of the job, and is empty when the line does not
\* hold that pattern.
C8_FastExtractsConfiguredKey ==
    (config.UseFastParse /\ pf.idx > 0 /\ LastLine # <<>>) =>
        pf.label = ValueAfter(LastLine, PatternOf(config.LabelKey))

\* the line the scan loop handles next
NextLine == ScanText(directory.entries[1].raw[pf.idx + 1])

\* the line does not hold the quoted key at all
LacksField(line, k) == Index(line, Str(k)) = -1

\* a line that is to yield no value
YieldsNoValue(line) ==
    \/ line = <<>>
    \/ LacksField(line, config.LabelKey)
    \/ ValueAfter(line, PatternOf(config.LabelKey)) = <<>> /\ config.UseFastParse
    \/ ~config.UseFastParse /\ Unmarshal(line).err
    \/ ~config.UseFastParse /\ ~Unmarshal(line).err
       /\ LabelOf(Unmarshal(line), config.LabelKey).label = <<>>

\* C9: a line that is blank, lacks the field, has an empty value or, with
\* full parsing, is not JSON changes neither the counts nor the line count,
\* the scan goes on with the next line, and processFile returns an error only
\* for a file that cannot be opened or read.
C9_NoValueLinesSkipped ==
    /\ [][(PFScan /\ YieldsNoValue(NextLine)) =>
             /\ pf'.counts = pf.counts
             /\ pf'.lineCount = pf.lineCount
             /\ pf'.pc = "scan"]_vars
    /\ [](pf.pc = "returned" =>
             (pf.ret.Error # NoErr <=>
                 directory.entries[1].openErr \/ directory.entries[1].readErr))

\* how often the text p occurs in s
CountOf(s, p) == Cardinality({i \in 0..Len(s) : HasPrefixAt(s, p, i)})

\* in the text of line, the key "label" is followed by a colon and the quoted
\* text v as it stands, blanks aside
RawValueIs(line, v) ==
    \E i \in 0..Len(line) :
        /\ HasPrefixAt(line, Str(labelText), i)
        /\ SkipWS(line, i + Len(Str(labelText))) < Len(line)
        /\ At(line, SkipWS(line, i + Len(Str(labelText)))) = COLON
        /\ HasPrefixAt(line, Str(v),
                       SkipWS(line, SkipWS(line, i + Len(Str(labelText))) + 1))

\* u, the decoded line, has at top level the key "label" with a string
\* value that is not empty and is written without escape sequences
PlainDecoded(line, u) ==
    /\ ~u.err
    /\ HasKey(u.data, labelText)
    /\ MapGet(u.data, labelText).t = "string"
    /\ MapGet(u.data, labelText).s # <<>>
    /\ \A i \in 1..Len(MapGet(u.data, labelText).s) :
          MapGet(u.data, labelText).s[i] # BSL
    /\ RawValueIs(line, MapGet(u.data, labelText).s)

\* a well-formed JSON object in which the key "label" occurs once, at top
\* level, with a non-empty string value without escape sequences
PlainLabelRecord(line) ==
    /\ CountOf(line, Str(labelText)) = 1
    /\ PlainDecoded(line, Unmarshal(line))

\* the text "label": occurs once in the line, the colon right after the key,
\* and only spaces and tabs stand between it and the opening quote of the
\* value
ShallowForm(line) ==
    /\ CountOf(line, labelKeyLit) = 1
    /\ \E i \in 0..Len(line) :
          /\ HasPrefixAt(line, labelKeyLit, i)
          /\ \E k \in (i + Len(labelKeyLit))..(Len(line) - 1) :
                /\ At(line, k) = DQ
                /\ \A j \in (i + Len(labelKeyLit))..(k - 1) :
                      At(line, j) \in {SP, TAB}

ShallowLabelRecord(line) == PlainLabelRecord(line) /\ ShallowForm(line)

\* what processFile returns for the file with the other strategy
OtherStrategy ==
    processFile(1, directory.entries[1], config.LabelKey, ~config.UseFastParse)

IntValues ==
    {0, 1, 7, 10, 42, 100, 1000, 12345, 99999, 100000, 123456, 999999,
     1000000, 1234567, 20000000}

\* 1.5, 1.0, 2.50, 0.5, -3, 1e2
OnePointFive == <<49, DOT, 53>>
OnePointZero == <<49, DOT, ZERO>>
TwoPointFifty == <<50, DOT, 53, ZERO>>
PointFive == <<ZERO, DOT, 53>>
MinusThree == <<MINUS, 51>>
OneE2 == <<49, 101, 50>>

ValueTexts ==
    {Itoa(n) : n \in IntValues}
    \cup {OnePointFive, OnePointZero, TwoPointFifty, PointFive, MinusThree,
          OneE2}
    \cup {trueLit, falseLit, nullLit, Str(<<97>>), Str(<<>>),
          <<LBRACK, 49, RBRACK>>}

LineInit ==
    /\ config \in {c \in Configs : c.Workers = 1}
    /\ directory \in
          {[walkErr |-> FALSE,
            entries |-> <<Entry(fileName, FALSE, <<Rec1(labelText, v)>>, FALSE)>>] :
              v \in ValueTexts}
    /\ Start
    /\ pf = [NoCall EXCEPT !.pc = "open"]
    /\ fx = NoFx

LineSpec == LineInit /\ [][FileNext]_vars

\* the full-parse label of the record {"label":v} that was just scanned
FullLabelOf(v) ==
    (/\ ~config.UseFastParse /\ config.LabelKey = labelText
     /\ pf.idx > 0 /\ LastLine = Rec1(labelText, v))

\* C12: with full parsing, an integral value n is rendered as the decimal
\* digits of n (1 as "1", 1000000 as "1000000"), 1.0 without its ".0", 1.5
\* as "1.5" and true as "true".
C12_NumbersCanonical ==
    /\ \A n \in IntValues : FullLabelOf(Itoa(n)) => pf.label = Itoa(n)
    /\ FullLabelOf(OnePointZero) => pf.label = Itoa(1)
    /\ FullLabelOf(OneE2) => pf.label = Itoa(100)
    /\ FullLabelOf(OnePointFive) => pf.label = OnePointFive
    /\ FullLabelOf(trueLit) => pf.label = trueLit

(***************************************************************************)
(* fastExtractLabel, statement by statement, on one line.  A read line[i]  *)
(* or a slice line[a:b] outside the line panics.                           *)
(***************************************************************************)
\* the bytes of the lines: " ' \ , space and a
TailBytes == {DQ, SQ, BSL, COMMA, SP, 97}

Tails == SeqsUpTo(TailBytes, MaxTail)

\* lines that hold "label": and then up to MaxTail bytes, blanks first or
\* not, and lines without it
FastLines ==
    {labelKeyLit \o t : t \in Tails}
    \cup {labelKeyLit \o <<SP, TAB>> \o t : t \in Tails}
    \cup {<<>>, labelText, Str(labelText), lineXA}

FastInit ==
    /\ config = [LabelKey |-> labelText, Workers |-> 1, UseFastParse |-> TRUE]
    /\ directory = [walkErr |-> FALSE, entries |-> <<>>]
    /\ Start
    /\ pf = NoCall
    /\ fx \in {[NoFx EXCEPT !.pc = "index", !.line = l] : l \in FastLines}

\* line[i] is inside s, and s[a:b] is
InBounds(s, i) == 0 <= i /\ i < Len(s)
SliceInBounds(s, a, b) == 0 <= a /\ a <= b /\ b <= Len(s)

\* the rest of the state stays as it is
FxFrame ==
    UNCHANGED <<config, directory, mpc, files, chans, jobs, jobsClosed,
                results, resultsClosed, wg, spawned, wpc, wres, dpc, sent,
                wtpc, totalCounts, totalLines, errors, ret, panic, taken,
                merged, pf>>

\* return v
FxReturn(v) == fx' = [fx EXCEPT !.pc = "returned", !.ret = v]

\* the runtime panic of an index or a slice out of range
FxPanic == fx' = [fx EXCEPT !.pc = "panicked"]

\* pos := strings.Index(line, labelKey); if pos == -1 { return "" };
\* start := pos + len(labelKey)
FxIndex ==
    /\ fx.pc = "index"
    /\ IF Index(fx.line, labelKeyLit) = -1
       THEN FxReturn(<<>>)
       ELSE fx' = [fx EXCEPT !.pc = "skip",
                             !.pos = Index(fx.line, labelKeyLit),
                             !.start = Index(fx.line, labelKeyLit)
                                       + Len(labelKeyLit)]
    /\ FxFrame

\* one test of "for start < len(line) && (line[start] == ' ' || ...)" and
\* its start++
FxSkip ==
    /\ fx.pc = "skip"
    /\ IF fx.start < Len(fx.line)
       THEN IF ~InBounds(fx.line, fx.start) THEN FxPanic
            ELSE IF At(fx.line, fx.start) \in {SP, TAB, NL}
            THEN fx' = [fx EXCEPT !.start = @ + 1]
            ELSE fx' = [fx EXCEPT !.pc = "first"]
       ELSE fx' = [fx EXCEPT !.pc = "first"]
    /\ FxFrame

\* where the value is read from, by its first byte c
FxBranch(c) ==
    IF c = DQ THEN [fx EXCEPT !.pc = "dq", !.firstChar = c, !.end = fx.start + 1]
    ELSE IF c = SQ
    THEN [fx EXCEPT !.pc = "sq", !.firstChar = c, !.end = fx.start + 1]
    ELSE [fx EXCEPT !.pc = "simple", !.firstChar = c, !.end = fx.start]

\* a faulty start of the value that lacks "if start >= len(line)"
FxFirstNoCheck ==
    /\ fx.pc = "first"
    /\ IF ~InBounds(fx.line, fx.start) THEN FxPanic
       ELSE fx' = FxBranch(At(fx.line, fx.start))
    /\ FxFrame

\* if start >= len(line) { return "" }; firstChar := line[start]; the tests
\* of firstChar and "end := start + 1", or "end := start"
FxFirst ==
    /\ fx.pc = "first"
    /\ IF fx.start >= Len(fx.line) THEN FxReturn(<<>>)
       ELSE IF ~InBounds(fx.line, fx.start) THEN FxPanic
       ELSE fx' = FxBranch(At(fx.line, fx.start))
    /\ FxFrame

\* the end of a loop over a quoted value: "if end < len(line) { return
\* line[start+1 : end] }", or on to the simple value
FxQuotedExit ==
    IF fx.end < Len(fx.line)
    THEN IF SliceInBounds(fx.line, fx.start + 1, fx.end)
         THEN FxReturn(Slice(fx.line, fx.start + 1, fx.end))
         ELSE FxPanic
    ELSE fx' = [fx EXCEPT !.pc = "simple", !.end = fx.start]

\* a faulty loop over a quoted value that lacks the test for a backslash
FxQuotedNoEscape ==
    /\ fx.pc \in {"dq", "sq"}
    /\ IF fx.end < Len(fx.line)
       THEN IF ~InBounds(fx.line, fx.end) THEN FxPanic
            ELSE IF At(fx.line, fx.end) # fx.firstChar
            THEN fx' = [fx EXCEPT !.end = @ + 1]
            ELSE FxQuotedExit
       ELSE FxQuotedExit
    /\ FxFrame

\* one test of "for end < len(line) && line[end] != '"'" (or '\'') and its
\* body, "if line[end] == '\\' && end+1 < len(line) { end += 2; continue };
\* end++", or what follows the loop
FxQuoted ==
    /\ fx.pc \in {"dq", "sq"}
    /\ IF fx.end < Len(fx.line)
       THEN IF ~InBounds(fx.line, fx.end) THEN FxPanic
            ELSE IF At(fx.line, fx.end) # fx.firstChar
            THEN IF At(fx.line, fx.end) = BSL /\ fx.end + 1 < Len(fx.line)
                 THEN fx' = [fx EXCEPT !.end = @ + 2]
                 ELSE fx' = [fx EXCEPT !.end = @ + 1]
            ELSE FxQuotedExit
       ELSE FxQuotedExit
    /\ FxFrame

\* one test of "for end < len(line) && line[end] != ',' && ..." and its end++
FxSimple ==
    /\ fx.pc = "simple"
    /\ IF fx.end < Len(fx.line)
       THEN IF ~InBounds(fx.line, fx.end) THEN FxPanic
            ELSE IF At(fx.line, fx.end) \notin {COMMA, RBRACE, NL}
            THEN fx' = [fx EXCEPT !.end = @ + 1]
            ELSE fx' = [fx EXCEPT !.pc = "trim"]
       ELSE fx' = [fx EXCEPT !.pc = "trim"]
    /\ FxFrame

\* value := strings.TrimSpace(line[start:end]); the stripping of one layer
\* of quotes, value[1 : len(value)-1] under len(value) >= 2; return value
FxTrim ==
    /\ fx.pc = "trim"
    /\ IF SliceInBounds(fx.line, fx.start, fx.end)
       THEN FxReturn(StripQuotes(TrimSpace(Slice(fx.line, fx.start, fx.end))))
       ELSE FxPanic
    /\ FxFrame

FastNext == FxIndex \/ FxSkip \/ FxFirst \/ FxQuoted \/ FxSimple \/ FxTrim

\* the call runs on for as long as it has a statement to run
FastSpec == FastInit /\ [][FastNext]_vars /\ WF_vars(FastNext)

\* statement by statement, the call returns what fastExtractLabel returns
FxAgrees == fx.pc = "returned" => fx.ret = fastExtractLabel(fx.line)

(***************************************************************************)
(* Properties of a call of fastExtractLabel.                               *)
(***************************************************************************)
\* where the text after the pattern starts, and where the value does: the
\* first byte after the pattern that is no blank, or the end of the line
PatternEnd(line) == Index(line, labelKeyLit) + Len(labelKeyLit)
ValueOpen(line) ==
    CHOOSE k \in PatternEnd(line)..Len(line) :
        /\ k = Len(line) \/ At(line, k) \notin {SP, TAB, NL}
        /\ \A j \in PatternEnd(line)..(k - 1) : At(line, j) \in {SP, TAB, NL}

\* how many backslashes stand right before line[i], from line[from] on
RECURSIVE BackslashesBefore(_, _, _)
BackslashesBefore(line, from, i) ==
    IF i > from /\ At(line, i - 1) = BSL
    THEN 1 + BackslashesBefore(line, from, i - 1)
    ELSE 0

\* the quotes that match the one at line[open] and that no backslash
\* escapes: an even number of backslashes stands before them
ClosingQuotes(line, open) ==
    {i \in (open + 1)..(Len(line) - 1) :
        /\ At(line, i) = At(line, open)
        /\ BackslashesBefore(line, open + 1, i) % 2 = 0}

FirstOfSet(S) == CHOOSE i \in S : \A j \in S : i <= j

\* the line holds the pattern and then a quoted value with its closing quote
QuotedValue(line) ==
    /\ Index(line, labelKeyLit) # -1
    /\ ValueOpen(line) < Len(line)
    /\ At(line, ValueOpen(line)) \in {DQ, SQ}
    /\ ClosingQuotes(line, ValueOpen(line)) # {}

\* C17: for a value in double or single quotes, what is returned is the text
\* of the line between the opening quote and the first matching quote that
\* no backslash escapes, as it stands: an escaped quote does not end the
\* value and no escape sequence is decoded.
C17_EscapesSkipped ==
    (fx.pc = "returned" /\ QuotedValue(fx.line)) =>
        fx.ret = Slice(fx.line, ValueOpen(fx.line) + 1,
                       FirstOfSet(ClosingQuotes(fx.line, ValueOpen(fx.line))))

\* "label":"\"" has returned \"
C17_Witness ==
    /\ fx.pc = "returned"
    /\ fx.line = labelKeyLit \o <<DQ, BSL, DQ, DQ>>
    /\ fx.ret = <<BSL, DQ>>

\* what is returned is empty or a piece of the line after the pattern
ReturnsPieceOfLine ==
    fx.pc = "returned" =>
        \/ fx.ret = <<>>
        \/ /\ Index(fx.line, labelKeyLit) # -1
           /\ \E a, b \in PatternEnd(fx.line)..Len(fx.line) :
                 a <= b /\ fx.ret = Slice(fx.line, a, b)

\* C19: on every line the call returns: no read and no slice leaves the
\* line, the positions stay within it, and what is returned is the empty
\* string or a piece of the line that follows the pattern.
C19_TotalAndIndexSafe ==
    /\ [](fx.pc # "panicked")
    /\ [](fx.start <= Len(fx.line) /\ fx.end <= Len(fx.line))
    /\ []ReturnsPieceOfLine
    /\ <>(fx.pc = "returned")

\* the line that ends in a backslash inside a quoted value, "label":"a\, has
\* returned "a\
C19_Witness ==
    /\ fx.pc = "returned"
    /\ fx.line = labelKeyLit \o <<DQ, 97, BSL>>
    /\ fx.ret = <<DQ, 97, BSL>>

====
